---- MODULE Spec2Model ----
(***************************************************************************)
(* A model of the NumberInput widget (crates/ui/src/input/number_input.rs):*)
(* a text field wrapped between a minus and a plus button.  The widget     *)
(* owns a child TextInput entity, forwards the child's events, and emits   *)
(* Step events on increment/decrement unless the child is disabled.        *)
(*                                                                         *)
(* The child TextInput, the Size enum and the InputEvent enum live in      *)
(* other files of the crate; the operators named TextInput_* model them    *)
(* from the written specification.                                         *)
(***************************************************************************)
EXTENDS Integers, Sequences, FiniteSets, TLC

VARIABLES
    input,           \* the child TextInput entity (NumberInput.input)
    size,            \* NumberInput.size
    synced_size,     \* NumberInput._synced_size
    emitted,         \* NumberInputEvents the widget emitted in the last update
    input_emitted,   \* InputEvents the child emitted in the last update
    set_size_calls,  \* number of TextInput::set_size calls made on the child
    tree,            \* the element tree the last render returned
    sync_requested,  \* TRUE once render or set_size has been called
    built,           \* FALSE while the builder chain still owns the value
    last,            \* the last operation and the state it started from
    hist,            \* builder calls applied so far (builder specification)
    probe            \* a candidate string and the pattern's verdict on it

vars == <<input, size, synced_size, emitted, input_emitted, set_size_calls,
          tree, sync_requested, built, last, hist, probe>>

----------------------------------------------------------------------------
(* Bounds of the model.                                                    *)

\* Most events the child emits within one update.
MaxBurst == 2

\* Longest candidate string handed to the validation pattern.
MaxLen == 4

----------------------------------------------------------------------------
(* Characters and strings.  A string is a sequence of one-character        *)
(* strings.  "U0663" stands for ARABIC-INDIC DIGIT THREE: the regex crate's*)
(* \d is Unicode-aware and matches every decimal digit, not only 0-9.      *)

Alphabet == {"-", ".", "1", "2", "U0663", "a"}

IsDigit(c) == c \in {"0", "1", "2", "3", "4", "5", "6", "7", "8", "9", "U0663"}

IsLower(c) == c \in {"a", "b", "c"}

Strings(n) == UNION {[1..k -> Alphabet] : k \in 0..n}

----------------------------------------------------------------------------
(* Regular expressions, by positions: a piece maps the set of positions a  *)
(* match may have reached to the set it may reach after the piece.         *)

\* p..q-1 are all digits
DigitRun(s, p, q) == \A i \in p..(q - 1) : IsDigit(s[i])

\* -?
OptMinus(s, P) == P \cup {p + 1 : p \in {x \in P : x <= Len(s) /\ s[x] = "-"}}

\* (\d+)?
OptDigits(s, P) ==
    P \cup {q \in 2..(Len(s) + 1) : \E p \in P : p < q /\ DigitRun(s, p, q)}

\* \.?
OptDot(s, P) == P \cup {p + 1 : p \in {x \in P : x <= Len(s) /\ s[x] = "."}}

\* the pattern without its closing anchor: ^-?(\d+)?\.?(\d+)?
NumberPatternUnanchored(s) ==
    \E q \in 1..(Len(s) + 1) :
        q \in OptDigits(s, OptDot(s, OptDigits(s, OptMinus(s, {1}))))

\* the pattern with its digits required: ^-?\d+(\.\d+)?$
NumberPatternStrict(s) ==
    \E d \in 1..Len(s) :
        /\ DigitRun(s, d, Len(s) + 1)
        /\ \/ d \in OptMinus(s, {1})
           \/ /\ d > 2
              /\ s[d - 1] = "."
              /\ \E m \in OptMinus(s, {1}) : m < d - 1 /\ DigitRun(s, m, d - 1)

\* ^-?(\d+)?\.?(\d+)?$  (no multi-line flag: $ is the end of the text)
NumberPatternMatches(s) ==
    (Len(s) + 1) \in OptDigits(s, OptDot(s, OptDigits(s, OptMinus(s, {1}))))

\* ^[a-z]*$, a pattern a caller may install in place of the default
AlphaPatternMatches(s) == \A i \in 1..Len(s) : IsLower(s[i])

DefaultPattern == "^-?(\\d+)?\\.?(\\d+)?$"

AlphaPattern == "^[a-z]*$"

Patterns == {DefaultPattern, AlphaPattern}

\* Regex::is_match
is_match(pattern, s) ==
    IF pattern = DefaultPattern THEN NumberPatternMatches(s)
    ELSE AlphaPatternMatches(s)

----------------------------------------------------------------------------
(* Values the operations are called with.                                  *)

\* crate::Size; "Size" stands for the pixel-valued variant Size::Size(_)
Sizes == {"XSmall", "Small", "Medium", "Large", "Size"}

\* Size::default()
DefaultSize == "Medium"

Placeholders == {<<>>, <<"a">>}

Texts == {<<>>, <<"1">>, <<"a">>}

StepAction == {"Decrement", "Increment"}

\* crate::input::InputEvent values the child may emit
InputEvents == {[kind |-> "Change", text |-> t] : t \in {<<>>, <<"1">>}}
                   \cup {[kind |-> "PressEnter", text |-> <<>>]}

\* NumberInputEvent::Input(_) and NumberInputEvent::Step(_)
Input(event) == [variant |-> "Input", payload |-> event]

Step(action) == [variant |-> "Step", payload |-> action]

KEY_CONTENT == "NumberInput"

\* the bindings init() registers: key, action, key context
KeyBindings == {<<"up", "Increment", KEY_CONTENT>>,
                <<"down", "Decrement", KEY_CONTENT>>}

Keys == {"up", "down", "left"}

NoTree == [key_context |-> "", actions |-> {}, input_size |-> "", children |-> <<>>]

----------------------------------------------------------------------------
(* The child TextInput.                                                    *)

\* TextInput::new(window, cx).pattern(pattern).appearance(false)
TextInput_new(pattern) ==
    [text |-> <<>>, placeholder |-> <<>>, pattern |-> pattern,
     disabled |-> FALSE, size |-> DefaultSize]

TextInput_set_placeholder(inp, p) == [inp EXCEPT !.placeholder = p]

TextInput_set_pattern(inp, r) == [inp EXCEPT !.pattern = r]

\* text the validation pattern does not accept is not taken over
TextInput_is_valid_input(inp, t) == is_match(inp.pattern, t)

TextInput_set_text(inp, t) ==
    IF TextInput_is_valid_input(inp, t) THEN [inp EXCEPT !.text = t] ELSE inp

TextInput_set_disabled(inp, d) == [inp EXCEPT !.disabled = d]

TextInput_set_size(inp, s) == [inp EXCEPT !.size = s]

----------------------------------------------------------------------------
(* The widget's methods, as functions of the world w they run in:          *)
(* w.input is the child entity, w.size and w.synced_size the widget's own  *)
(* fields, w.emitted what cx.emit has been given in this update (the       *)
(* framework hands emitted events to the subscribers when the update ends  *)
(* and keeps none of them).                                                *)

World == [input |-> input, size |-> size, synced_size |-> synced_size,
          emitted |-> <<>>, input_emitted |-> <<>>,
          set_size_calls |-> set_size_calls, tree |-> tree]

\* NumberInput::new
new == [input |-> TextInput_new(DefaultPattern), size |-> DefaultSize,
        synced_size |-> FALSE, emitted |-> <<>>, input_emitted |-> <<>>,
        set_size_calls |-> 0, tree |-> NoTree]

\* a closure that applies the disabled guard to forwarded events too
on_input_event_guarded(w, event) ==
    IF w.input.disabled THEN w
    ELSE [w EXCEPT !.emitted = Append(@, Input(event))]

\* the closure new() subscribes to the child with
on_input_event(w, event) == [w EXCEPT !.emitted = Append(@, Input(event))]

placeholder(w, p) == [w EXCEPT !.input = TextInput_set_placeholder(@, p)]

set_placeholder(w, p) == [w EXCEPT !.input = TextInput_set_placeholder(@, p)]

\* a builder that drops the pattern it is given
pattern_dropped(w, r) == w

pattern(w, r) == [w EXCEPT !.input = TextInput_set_pattern(@, r)]

set_value(w, t) == [w EXCEPT !.input = TextInput_set_text(@, t)]

set_disabled(w, d) == [w EXCEPT !.input = TextInput_set_disabled(@, d)]

with_size(w, s) == [w EXCEPT !.size = s]

\* a sync that never raises the flag
sync_size_always(w) ==
    [w EXCEPT !.input = TextInput_set_size(@, w.size),
              !.set_size_calls = @ + 1]

sync_size_to_input_if_needed(w) ==
    IF ~w.synced_size
    THEN [w EXCEPT !.input = TextInput_set_size(@, w.size),
                   !.set_size_calls = @ + 1,
                   !.synced_size = TRUE]
    ELSE w

\* a resize that hands every new size to the child
set_size_through(w, s) ==
    [w EXCEPT !.size = s,
              !.input = TextInput_set_size(@, s),
              !.synced_size = TRUE,
              !.set_size_calls = IF w.synced_size THEN @ ELSE @ + 1]

set_size(w, s) == sync_size_to_input_if_needed([w EXCEPT !.size = s])

\* a step without the disabled guard
on_step_unguarded(w, action) ==
    [w EXCEPT !.emitted = Append(@, Step(action))]

\* a step that also rewrites the displayed value
on_step_writing(w, action) ==
    IF w.input.disabled THEN w
    ELSE [w EXCEPT !.emitted = Append(@, Step(action)),
                   !.input = TextInput_set_text(@, <<"1">>)]

on_step(w, action) ==
    IF w.input.disabled THEN w
    ELSE [w EXCEPT !.emitted = Append(@, Step(action))]

on_action_increment(w) == on_step(w, "Increment")

\* a decrement handler copied from the increment handler
on_action_decrement_copied(w) == on_step(w, "Increment")

on_action_decrement(w) == on_step(w, "Decrement")

increment(w) == on_action_increment(w)

decrement(w) == on_action_decrement(w)

\* button sizing that shrinks the smallest tier only
btn_size_one_tier(s) == IF s = "XSmall" THEN "XSmall" ELSE "Small"

\* the size both step buttons are given
btn_size(s) == IF s \in {"XSmall", "Small"} THEN "XSmall" ELSE "Small"

\* a child element: a Button, or the text input (no icon, no listener)
Element(id, s, icon, action) ==
    [id |-> id, size |-> s, icon |-> icon, on_click |-> action]

render(w) ==
    LET v == sync_size_to_input_if_needed(w)
    IN  [v EXCEPT !.tree =
            [key_context |-> KEY_CONTENT,
             actions     |-> {"Increment", "Decrement"},
             input_size  |-> v.size,
             children    |-> << Element("minus", btn_size(v.size), "Minus", "Decrement"),
                                Element("input", "", "", ""),
                                Element("plus", btn_size(v.size), "Plus", "Increment") >>]]

\* a click on the child element with this id runs its on_click listener
click(w, id) ==
    LET hit == {i \in 1..Len(w.tree.children) :
                   w.tree.children[i].id = id /\ w.tree.children[i].on_click # ""}
    IN  IF hit = {} THEN w
        ELSE on_step(w, w.tree.children[CHOOSE i \in hit : TRUE].on_click)

\* a key press inside the rendered element: the binding of the key in the
\* element's key context, dispatched to the listener render registered
key_down(w, key) ==
    LET bound == {b \in KeyBindings : b[1] = key /\ b[3] = w.tree.key_context
                                        /\ b[2] \in w.tree.actions}
    IN  IF bound = {} THEN w
        ELSE IF (CHOOSE b \in bound : TRUE)[2] = "Increment"
             THEN on_action_increment(w)
             ELSE on_action_decrement(w)

\* the child emits an event; the subscription delivers it to the closure
input_emits(w, event) ==
    on_input_event([w EXCEPT !.input_emitted = Append(@, event)], event)

\* the child emits several events in one update: delivered first in, first out
RECURSIVE input_emits_all(_, _)
input_emits_all(w, events) ==
    IF events = <<>> THEN w
    ELSE input_emits_all(input_emits(w, Head(events)), Tail(events))

\* the user replaces the child's text: taken over, and announced, only when
\* the child is enabled and the pattern accepts the text
type_text(w, t) ==
    IF w.input.disabled \/ ~TextInput_is_valid_input(w.input, t) THEN w
    ELSE input_emits([w EXCEPT !.input.text = t], [kind |-> "Change", text |-> t])

----------------------------------------------------------------------------
(* The state machine.                                                      *)

\* Longest run of child set_size calls explored (the code makes one).
MaxSyncCalls == 3

Snapshot(w) == [input |-> w.input, size |-> w.size, synced_size |-> w.synced_size,
                set_size_calls |-> w.set_size_calls]

NoProbe == [s |-> <<>>, verdict |-> "unchecked"]

Init ==
    /\ input = new.input
    /\ size = new.size
    /\ synced_size = new.synced_size
    /\ emitted = <<>>
    /\ input_emitted = <<>>
    /\ set_size_calls = new.set_size_calls
    /\ tree = new.tree
    /\ sync_requested = FALSE
    /\ built = FALSE
    /\ last = [op |-> "new", arg |-> "", pre |-> Snapshot(new)]
    /\ hist = <<>>
    /\ probe = NoProbe

\* the world after an operation becomes the state
Commit(w) ==
    /\ w.set_size_calls <= MaxSyncCalls
    /\ input' = w.input
    /\ size' = w.size
    /\ synced_size' = w.synced_size
    /\ emitted' = w.emitted
    /\ input_emitted' = w.input_emitted
    /\ set_size_calls' = w.set_size_calls
    /\ tree' = w.tree

\* one operation of the widget, recorded with the state it started from
Did(op, arg, w) ==
    /\ Commit(w)
    /\ sync_requested' = (sync_requested \/ op \in {"render", "set_size"})
    /\ last' = [op |-> op, arg |-> arg, pre |-> Snapshot(World)]
    /\ UNCHANGED <<hist, probe>>

\* builder methods take self by value: they run before the entity exists
Call_placeholder ==
    \E p \in Placeholders :
        ~built /\ Did("placeholder", p, placeholder(World, p)) /\ UNCHANGED built

Call_pattern ==
    \E r \in Patterns :
        ~built /\ Did("pattern", r, pattern(World, r)) /\ UNCHANGED built

Call_with_size ==
    \E s \in Sizes :
        ~built /\ Did("with_size", s, with_size(World, s)) /\ UNCHANGED built

\* cx.new returns: the widget is an entity from now on
Built ==
    ~built /\ built' = TRUE /\ Did("built", "", World)

Call_set_size ==
    \E s \in Sizes : Did("set_size", s, set_size(World, s)) /\ UNCHANGED built

Call_set_placeholder ==
    \E p \in Placeholders :
        Did("set_placeholder", p, set_placeholder(World, p)) /\ UNCHANGED built

Call_set_value ==
    \E t \in Texts : Did("set_value", t, set_value(World, t)) /\ UNCHANGED built

Call_set_disabled ==
    \E d \in BOOLEAN :
        Did("set_disabled", d, set_disabled(World, d)) /\ UNCHANGED built

Call_increment ==
    Did("increment", "", increment(World)) /\ UNCHANGED built

Call_decrement ==
    Did("decrement", "", decrement(World)) /\ UNCHANGED built

\* the framework renders entities only
Frame_render ==
    built /\ Did("render", "", render(World)) /\ UNCHANGED built

\* keys and clicks reach the widget through a rendered element
User_key_down ==
    \E key \in Keys :
        built /\ tree # NoTree /\ Did("key_down", key, key_down(World, key))
              /\ UNCHANGED built

User_click ==
    \E id \in {"minus", "input", "plus"} :
        built /\ tree # NoTree /\ Did("click", id, click(World, id))
              /\ UNCHANGED built

User_type_text ==
    \E t \in Texts :
        built /\ tree # NoTree /\ Did("type_text", t, type_text(World, t))
              /\ UNCHANGED built

Bursts == UNION {[1..k -> InputEvents] : k \in 1..MaxBurst}

Child_emits ==
    \E events \in Bursts :
        Did("input_emits", events, input_emits_all(World, events))
            /\ UNCHANGED built

Next ==
    \/ Call_placeholder
    \/ Call_pattern
    \/ Call_with_size
    \/ Built
    \/ Call_set_size
    \/ Call_set_placeholder
    \/ Call_set_value
    \/ Call_set_disabled
    \/ Call_increment
    \/ Call_decrement
    \/ Frame_render
    \/ User_key_down
    \/ User_click
    \/ User_type_text
    \/ Child_emits

Spec == Init /\ [][Next]_vars

----------------------------------------------------------------------------
(* The builder chain on a fresh widget: placeholder, pattern and set_value,*)
(* each called once, in any order.                                         *)

Called(op) == \E i \in 1..Len(hist) : hist[i].op = op

Chained(op, arg, w) ==
    /\ ~Called(op)
    /\ Commit(w)
    /\ hist' = Append(hist, [op |-> op, arg |-> arg])
    /\ UNCHANGED <<sync_requested, built, last, probe>>

Chain_placeholder ==
    \E p \in Placeholders : Chained("placeholder", p, placeholder(World, p))

Chain_pattern ==
    \E r \in Patterns : Chained("pattern", r, pattern(World, r))

Chain_set_value ==
    \E t \in Texts : Chained("set_value", t, set_value(World, t))

NextBuilder ==
    \/ Chain_placeholder
    \/ Chain_pattern
    \/ Chain_set_value

SpecBuilder == Init /\ [][NextBuilder]_vars

----------------------------------------------------------------------------
(* The validation pattern new() installs, applied to candidate strings.    *)

Str_m12p5 == <<"-", "1", "2", ".", "5">>

Str_12p5p6 == <<"1", "2", ".", "5", ".", "6">>

Examples == {Str_m12p5, <<"1", "2">>, <<".", "5">>, <<"-", ".", "5">>,
             Str_12p5p6, <<"-", "-", "1">>, <<"a", "b", "c">>}

InitPattern ==
    /\ input = new.input
    /\ size = new.size
    /\ synced_size = new.synced_size
    /\ emitted = <<>>
    /\ input_emitted = <<>>
    /\ set_size_calls = new.set_size_calls
    /\ tree = new.tree
    /\ sync_requested = FALSE
    /\ built = FALSE
    /\ last = [op |-> "new", arg |-> "", pre |-> Snapshot(new)]
    /\ hist = <<>>
    /\ probe \in {[s |-> x, verdict |-> "unchecked"] : x \in Strings(MaxLen) \cup Examples}

\* the child asks the installed pattern about the candidate
Validate ==
    /\ probe.verdict = "unchecked"
    /\ probe' = [probe EXCEPT !.verdict =
                    IF TextInput_is_valid_input(input, probe.s)
                    THEN "accepted" ELSE "rejected"]
    /\ UNCHANGED <<input, size, synced_size, emitted, input_emitted,
                   set_size_calls, tree, sync_requested, built, last, hist>>

NextPattern == Validate

SpecPattern == InitPattern /\ [][NextPattern]_vars

----------------------------------------------------------------------------
(* Properties.                                                             *)

IncrementTrigger ==
    \/ last.op = "increment"
    \/ last.op = "key_down" /\ last.arg = "up"
    \/ last.op = "click" /\ last.arg = "plus"

DecrementTrigger ==
    \/ last.op = "decrement"
    \/ last.op = "key_down" /\ last.arg = "down"
    \/ last.op = "click" /\ last.arg = "minus"

StepTrigger == IncrementTrigger \/ DecrementTrigger

StepsEmitted == SelectSeq(emitted, LAMBDA e : e.variant = "Step")

InputsEmitted == SelectSeq(emitted, LAMBDA e : e.variant = "Input")

\* C1: a step trigger (method, key action or button) that finds the child
\* disabled emits no Step event, whatever set_disabled calls came before.
C1_DisabledEmitsNoStep ==
    (StepTrigger /\ last.pre.input.disabled) => StepsEmitted = <<>>

C1_Witness ==
    /\ last.op = "click"
    /\ last.arg = "plus"
    /\ last.pre.input.disabled
    /\ emitted = <<>>

\* C2: a step trigger that finds the child enabled emits exactly one event,
\* a Step of the trigger's own variant.
C2_EnabledEmitsOneMatchingStep ==
    /\ (IncrementTrigger /\ ~last.pre.input.disabled)
            => emitted = <<Step("Increment")>>
    /\ (DecrementTrigger /\ ~last.pre.input.disabled)
            => emitted = <<Step("Decrement")>>

C2_Witness ==
    /\ last.op = "key_down"
    /\ last.arg = "down"
    /\ ~last.pre.input.disabled
    /\ emitted = <<Step("Decrement")>>

\* C3: the child's set_size has been called once if render or set_size has
\* ever been called, and not at all before; later calls never add another.
C3_SizePropagatedOnce ==
    set_size_calls = (IF sync_requested THEN 1 ELSE 0)

C3_Witness ==
    /\ last.op \in {"render", "set_size"}
    /\ last.pre.synced_size
    /\ last.pre.set_size_calls = 1
    /\ set_size_calls = 1

\* C4: the Input events the widget emits are the child's events, one each,
\* same payload, same order, whether or not the child is disabled.
C4_InputEventsForwarded ==
    /\ Len(InputsEmitted) = Len(input_emitted)
    /\ \A i \in 1..Len(input_emitted) : InputsEmitted[i] = Input(input_emitted[i])
    /\ last.op = "input_emits" => /\ input_emitted = last.arg
                                  /\ Len(emitted) = Len(last.arg)

C4_Witness ==
    /\ last.op = "input_emits"
    /\ input.disabled
    /\ Len(emitted) = 2
    /\ emitted[1] # emitted[2]

DotCount(s) == Cardinality({i \in 1..Len(s) : s[i] = "."})

\* C5: the default pattern accepts -12.5, 12, .5 and -.5, rejects 12.5.6,
\* --1 and abc, and rejects every string with two dots, with a minus after
\* the first position, or with a character that is no digit, dot or minus.
C5_DefaultPattern ==
    probe.verdict # "unchecked" =>
        /\ probe.s \in {Str_m12p5, <<"1", "2">>, <<".", "5">>, <<"-", ".", "5">>}
                => probe.verdict = "accepted"
        /\ probe.s \in {Str_12p5p6, <<"-", "-", "1">>, <<"a", "b", "c">>}
                => probe.verdict = "rejected"
        /\ DotCount(probe.s) > 1 => probe.verdict = "rejected"
        /\ (\E i \in 2..Len(probe.s) : probe.s[i] = "-") => probe.verdict = "rejected"
        /\ (\E i \in 1..Len(probe.s) :
                ~IsDigit(probe.s[i]) /\ probe.s[i] \notin {".", "-"})
                => probe.verdict = "rejected"

C5_Witness ==
    probe.s = Str_12p5p6 /\ probe.verdict = "rejected"

\* C6 as stated: whatever the order of placeholder(p), pattern(r) and
\* set_value(v) on a fresh widget, the child ends as it does in the order
\* placeholder, pattern, set_value.
ArgOf(op) == hist[CHOOSE i \in 1..Len(hist) : hist[i].op = op].arg

CalledBefore(a, b) ==
    \E i, j \in 1..Len(hist) : i < j /\ hist[i].op = a /\ hist[j].op = b

C7_StepLeavesStateAlone ==
    StepTrigger =>
        /\ input = last.pre.input
        /\ size = last.pre.size
        /\ synced_size = last.pre.synced_size
        /\ set_size_calls = last.pre.set_size_calls

C7_Witness ==
    /\ last.op = "increment"
    /\ emitted = <<Step("Increment")>>
    /\ input.text = <<>>
    /\ input.placeholder # <<>>
    /\ size # input.size

\* C8: a render gives both buttons XSmall when the widget's size is XSmall
\* or Small and Small otherwise, and lays out minus, input, plus.
C8_ButtonSizes ==
    last.op = "render" =>
        /\ Len(tree.children) = 3
        /\ tree.children[1].id = "minus"
        /\ tree.children[2].id = "input"
        /\ tree.children[3].id = "plus"
        /\ tree.children[1].size = tree.children[3].size
        /\ size \in {"XSmall", "Small"} => tree.children[1].size = "XSmall"
        /\ size \in {"Medium", "Large", "Size"} => tree.children[1].size = "Small"

C8_Witness ==
    /\ last.op = "render"
    /\ size = "Small"
    /\ tree.children[1].size = "XSmall"
    /\ tree.children[3].size = "XSmall"

FirstSync == last.op \in {"render", "set_size"} /\ ~last.pre.synced_size

\* C9: the first render or set_size hands the child the widget's size of
\* that moment; every later operation, set_size included, leaves the
\* child's size alone, and a later set_size(s) changes the widget's size
\* only.
C9_ChildKeepsFirstSize ==
    /\ FirstSync => input.size = size
    /\ (FirstSync /\ last.op = "render") => size = last.pre.size
    /\ last.op = "set_size" => size = last.arg
    /\ ~FirstSync => input.size = last.pre.input.size
    /\ (last.op = "set_size" /\ last.pre.synced_size) =>
            /\ input = last.pre.input
            /\ synced_size
            /\ set_size_calls = last.pre.set_size_calls

C9_Witness ==
    /\ last.op = "set_size"
    /\ last.pre.synced_size
    /\ size = "Large"
    /\ input.size = "XSmall"

\* C10: the default pattern accepts the empty string, "-", ".", "-." and
\* digits followed by a dot, none of which is a number.
C10_AcceptsIncompleteNumbers ==
    probe.verdict # "unchecked" =>
        /\ probe.s \in {<<>>, <<"-">>, <<".">>, <<"-", ".">>, <<"1", "2", ".">>}
                => probe.verdict = "accepted"
        /\ (/\ Len(probe.s) >= 2
            /\ probe.s[Len(probe.s)] = "."
            /\ DigitRun(probe.s, 1, Len(probe.s)))
                => probe.verdict = "accepted"

C10_Witness ==
    probe.s = <<"1", "2", ".">> /\ probe.verdict = "accepted"

====
